---- MODULE Spec2Model ----
(***************************************************************************)
(* scripts/create-test-user.py: register a test user with one HTTP POST    *)
(* and report the outcome on the console.                                  *)
(*                                                                         *)
(* The script is straight-line code inside one try/except.  The program    *)
(* counter pc names the source line about to run ("L12" is line 12).  The  *)
(* service is the environment: while the script is blocked in              *)
(* requests.post (pc = "L20_call") it may answer with any status and body, *)
(* the transport may fail, or nothing may happen (no timeout is passed).   *)
(***************************************************************************)
EXTENDS Integers, Sequences, FiniteSets, TLC

VARIABLES pc, register_data, sent, response, data, user_id, token, exc, out, exitCode

vars == <<pc, register_data, sent, response, data, user_id, token, exc, out, exitCode>>

\* Largest numeric user identifier the modelled service hands out.
MaxId == 2

\* A Python name that is not bound yet.
None == [t |-> "None"]

(***************************************************************************)
(* JSON values, as json.loads builds them.                                 *)
(***************************************************************************)
JNull == [t |-> "null"]
JArr == [t |-> "arr"]
JNum(n) == [t |-> "num", n |-> n]
JStr(s) == [t |-> "str", s |-> s]
JObj(f) == [t |-> "obj", o |-> f]

\* The result of parsing a body that is not JSON.
NotJson == [t |-> "invalid"]

\* Order in which the service writes (and Python's dict keeps) the keys.
KeyOrder == <<"user", "id", "jwt", "error">>

RECURSIVE Dumps(_)
RECURSIVE DumpsItems(_, _, _)
\* The members of object f whose keys are KeyOrder[i..], as JSON text.
DumpsItems(f, i, first) ==
    IF i > Len(KeyOrder) THEN ""
    ELSE IF KeyOrder[i] \in DOMAIN f
         THEN (IF first THEN "" ELSE ",") \o "\"" \o KeyOrder[i] \o "\":"
                \o Dumps(f[KeyOrder[i]]) \o DumpsItems(f, i + 1, FALSE)
         ELSE DumpsItems(f, i + 1, first)

\* The text the service sends for JSON value v.
Dumps(v) ==
    CASE v.t = "null" -> "null"
      [] v.t = "num" -> ToString(v.n)
      [] v.t = "str" -> "\"" \o v.s \o "\""
      [] v.t = "arr" -> "[]"
      [] v.t = "obj" -> "{" \o DumpsItems(v.o, 1, TRUE) \o "}"

RECURSIVE PyRepr(_)
RECURSIVE PyReprItems(_, _, _)
PyReprItems(f, i, first) ==
    IF i > Len(KeyOrder) THEN ""
    ELSE IF KeyOrder[i] \in DOMAIN f
         THEN (IF first THEN "" ELSE ", ") \o "'" \o KeyOrder[i] \o "': "
                \o PyRepr(f[KeyOrder[i]]) \o PyReprItems(f, i + 1, FALSE)
         ELSE PyReprItems(f, i + 1, first)

\* repr() of the Python object json.loads builds for v.
PyRepr(v) ==
    CASE v.t = "null" -> "None"
      [] v.t = "num" -> ToString(v.n)
      [] v.t = "str" -> "'" \o v.s \o "'"
      [] v.t = "arr" -> "[]"
      [] v.t = "obj" -> "{" \o PyReprItems(v.o, 1, TRUE) \o "}"

\* str() of that object, which print and f-strings use: a str is shown bare.
PyStr(v) == IF v.t = "str" THEN v.s ELSE PyRepr(v)

\* v[key] succeeds only on a dict holding the key.
SubscriptOk(v, key) == v.t = "obj" /\ key \in DOMAIN v.o

SubscriptVal(v, key) == v.o[key]

\* The exception v[key] raises otherwise.
SubscriptErr(v, key) ==
    CASE v.t = "obj" -> [cls |-> "KeyError", msg |-> "'" \o key \o "'"]
      [] v.t = "arr" ->
           [cls |-> "TypeError", msg |-> "list indices must be integers or slices, not str"]
      [] v.t = "str" ->
           [cls |-> "TypeError", msg |-> "string indices must be integers, not 'str'"]
      [] v.t = "num" ->
           [cls |-> "TypeError", msg |-> "'int' object is not subscriptable"]
      [] v.t = "null" ->
           [cls |-> "TypeError", msg |-> "'NoneType' object is not subscriptable"]

(***************************************************************************)
(* What the environment can do to the one request.                         *)
(***************************************************************************)
IdVals == {JNum(n) : n \in 1..MaxId} \cup {JStr("u7")}

UserVals == {JObj([id |-> i]) : i \in IdVals} \cup {JObj(<<>>), JNull, JStr("bob")}

JwtVals == {JStr("eyJ.a"), JStr("eyJ.b")}

FieldVals(k) == IF k = "user" THEN UserVals ELSE JwtVals

\* Objects with any subset of the two expected members.
UserObjects ==
    {JObj(f) : f \in UNION {{g \in [d -> UserVals \cup JwtVals] :
                                 \A k \in d : g[k] \in FieldVals(k)} :
                            d \in SUBSET {"user", "jwt"}}}

JsonBodies ==
    UserObjects \cup {JObj([error |-> JStr("taken")]), JArr, JNull, JNum(0)}

NonJsonTexts == {"<html>Bad Gateway</html>", ""}

\* A body is its raw text together with what a JSON parser makes of it.
Bodies ==
    {[text |-> Dumps(j), parsed |-> j] : j \in JsonBodies}
      \cup {[text |-> s, parsed |-> NotJson] : s \in NonJsonTexts}

StatusOK == 200

Statuses == {StatusOK, 201, 400, 500}

\* requests.post raising instead of returning.
TransportFaults ==
    {[cls |-> "ConnectionError", msg |-> "Connection refused"],
     [cls |-> "Timeout", msg |-> "Read timed out."],
     [cls |-> "ChunkedEncodingError", msg |-> "Connection broken: IncompleteRead"]}

\* Classes that derive from requests.RequestException.
RequestsExceptions ==
    {"ConnectionError", "Timeout", "ChunkedEncodingError", "JSONDecodeError"}

\* Classes that derive from Exception.
ExceptionClasses == RequestsExceptions \cup {"KeyError", "TypeError"}

(***************************************************************************)
(* Console lines: the format string of the print call and the text put in  *)
(* its placeholder ("" when it has none).                                  *)
(***************************************************************************)
Line(fmt, arg) == [fmt |-> fmt, arg |-> arg]

BannerLine == Line("Step 1: Registering test user...", "")

IdLine(v) == Line("User created with ID: {user_id}", PyStr(v))

TokenLine(v) == Line("JWT Token: {token}", PyStr(v))

NoteLine == Line("Note: User role is 'reguser' by default", "")

HowToLine == Line("To make this user a sysadmin, update the database:", "")

UpdateLine(v) == Line("UPDATE up_users SET userRole='sysadmin' WHERE id={user_id};", PyStr(v))

FailedLine(status) == Line("Registration failed: {response.status_code}", ToString(status))

FailedBodyLine(v) == Line("{response.json()}", PyStr(v))

ErrorLine(e) == Line("Error: {e}", e.msg)

BASE_URL == "http://localhost:1341"

\* response.json()
ResponseJson(r) == r.parsed

Init ==
    /\ pc = "L12"
    /\ register_data = None
    /\ sent = <<>>
    /\ response = None
    /\ data = None
    /\ user_id = None
    /\ token = None
    /\ exc = None
    /\ out = <<>>
    /\ exitCode = -1

\* except Exception: whether the handler of the try statement takes class cls.
Catches_RequestsOnly(cls) == cls \in RequestsExceptions

Catches(cls) == cls \in ExceptionClasses

\* An exception raised inside the try block: control goes to the handler when
\* it matches; otherwise the interpreter ends the process with status 1.
Raise(e) ==
    /\ exc' = e
    /\ IF Catches(e.cls)
       THEN pc' = "L39" /\ exitCode' = exitCode
       ELSE pc' = "exited" /\ exitCode' = 1

PrintBanner ==
    /\ pc = "L12"
    /\ out' = Append(out, BannerLine)
    /\ pc' = "L13"
    /\ UNCHANGED <<register_data, sent, response, data, user_id, token, exc, exitCode>>

BuildRegisterData ==
    /\ pc = "L13"
    /\ register_data' = [username |-> "testsysadmin",
                         email |-> "testsysadmin@test.com",
                         password |-> "TestAdmin123!"]
    /\ pc' = "L20"
    /\ UNCHANGED <<sent, response, data, user_id, token, exc, out, exitCode>>

SendPost_BaseUrlOnly ==
    /\ pc = "L20"
    /\ sent' = Append(sent, [method |-> "POST", url |-> BASE_URL, json |-> register_data])
    /\ pc' = "L20_call"
    /\ UNCHANGED <<register_data, response, data, user_id, token, exc, out, exitCode>>

\* requests.post(...) puts the request on the wire and blocks.
SendPost ==
    /\ pc = "L20"
    /\ sent' = Append(sent, [method |-> "POST",
                             url |-> BASE_URL \o "/api/auth/local/register",
                             json |-> register_data])
    /\ pc' = "L20_call"
    /\ UNCHANGED <<register_data, response, data, user_id, token, exc, out, exitCode>>

\* requests.post returns: the service answered.
ReceiveResponse ==
    /\ pc = "L20_call"
    /\ \E s \in Statuses, b \in Bodies :
          response' = [status_code |-> s, text |-> b.text, parsed |-> b.parsed]
    /\ pc' = "L21"
    /\ UNCHANGED <<register_data, sent, data, user_id, token, exc, out, exitCode>>

\* requests.post raises: the transport failed.
TransportFault ==
    /\ pc = "L20_call"
    /\ \E f \in TransportFaults : Raise(f)
    /\ UNCHANGED <<register_data, sent, response, data, user_id, token, out>>

CheckStatus ==
    /\ pc = "L21"
    /\ pc' = IF response.status_code = StatusOK THEN "L22" ELSE "L35"
    /\ UNCHANGED <<register_data, sent, response, data, user_id, token, exc, out, exitCode>>

ParseJson ==
    /\ pc = "L22"
    /\ IF ResponseJson(response) = NotJson
       THEN /\ Raise([cls |-> "JSONDecodeError",
                      msg |-> "Expecting value: line 1 column 1 (char 0)"])
            /\ data' = data
       ELSE /\ data' = ResponseJson(response)
            /\ pc' = "L23"
            /\ UNCHANGED <<exc, exitCode>>
    /\ UNCHANGED <<register_data, sent, response, user_id, token, out>>

GetUserId_PrintEarly ==
    /\ pc = "L23"
    /\ IF ~SubscriptOk(data, "user")
       THEN Raise(SubscriptErr(data, "user")) /\ UNCHANGED <<user_id, out>>
       ELSE IF ~SubscriptOk(SubscriptVal(data, "user"), "id")
            THEN Raise(SubscriptErr(SubscriptVal(data, "user"), "id"))
                   /\ UNCHANGED <<user_id, out>>
            ELSE /\ user_id' = SubscriptVal(SubscriptVal(data, "user"), "id")
                 /\ out' = Append(out, IdLine(user_id'))
                 /\ pc' = "L24"
                 /\ UNCHANGED <<exc, exitCode>>
    /\ UNCHANGED <<register_data, sent, response, data, token>>

GetUserId_WholeUser ==
    /\ pc = "L23"
    /\ IF ~SubscriptOk(data, "user")
       THEN Raise(SubscriptErr(data, "user")) /\ user_id' = user_id
       ELSE /\ user_id' = SubscriptVal(data, "user")
            /\ pc' = "L24"
            /\ UNCHANGED <<exc, exitCode>>
    /\ UNCHANGED <<register_data, sent, response, data, token, out>>

\* user_id = data['user']['id']
GetUserId ==
    /\ pc = "L23"
    /\ IF ~SubscriptOk(data, "user")
       THEN Raise(SubscriptErr(data, "user")) /\ user_id' = user_id
       ELSE IF ~SubscriptOk(SubscriptVal(data, "user"), "id")
            THEN Raise(SubscriptErr(SubscriptVal(data, "user"), "id"))
                   /\ user_id' = user_id
            ELSE /\ user_id' = SubscriptVal(SubscriptVal(data, "user"), "id")
                 /\ pc' = "L24"
                 /\ UNCHANGED <<exc, exitCode>>
    /\ UNCHANGED <<register_data, sent, response, data, token, out>>

\* token = data['jwt']
GetToken ==
    /\ pc = "L24"
    /\ IF ~SubscriptOk(data, "jwt")
       THEN Raise(SubscriptErr(data, "jwt")) /\ token' = token
       ELSE /\ token' = SubscriptVal(data, "jwt")
            /\ pc' = "L25"
            /\ UNCHANGED <<exc, exitCode>>
    /\ UNCHANGED <<register_data, sent, response, data, user_id, out>>

ReportSuccess_TokenFirst ==
    /\ pc = "L25"
    /\ out' = out \o <<TokenLine(token), IdLine(user_id), NoteLine, HowToLine,
                       UpdateLine(user_id)>>
    /\ pc' = "end"
    /\ UNCHANGED <<register_data, sent, response, data, user_id, token, exc, exitCode>>

\* The five print calls of the success branch; nothing between them can raise.
ReportSuccess ==
    /\ pc = "L25"
    /\ out' = out \o <<IdLine(user_id), TokenLine(token), NoteLine, HowToLine,
                       UpdateLine(user_id)>>
    /\ pc' = "end"
    /\ UNCHANGED <<register_data, sent, response, data, user_id, token, exc, exitCode>>

PrintFailed ==
    /\ pc = "L35"
    /\ out' = Append(out, FailedLine(response.status_code))
    /\ pc' = "L36"
    /\ UNCHANGED <<register_data, sent, response, data, user_id, token, exc, exitCode>>

\* print(response.json()): the body is parsed first, and parsing may raise.
PrintFailedBody ==
    /\ pc = "L36"
    /\ IF ResponseJson(response) = NotJson
       THEN /\ Raise([cls |-> "JSONDecodeError",
                      msg |-> "Expecting value: line 1 column 1 (char 0)"])
            /\ out' = out
       ELSE /\ out' = Append(out, FailedBodyLine(ResponseJson(response)))
            /\ pc' = "end"
            /\ UNCHANGED <<exc, exitCode>>
    /\ UNCHANGED <<register_data, sent, response, data, user_id, token>>

HandleException_Retry ==
    /\ pc = "L39"
    /\ out' = Append(out, ErrorLine(exc))
    /\ pc' = IF Len(sent) < 2 THEN "L20" ELSE "end"
    /\ UNCHANGED <<register_data, sent, response, data, user_id, token, exc, exitCode>>

HandleException_NoMessage ==
    /\ pc = "L39"
    /\ out' = Append(out, Line("Error: {e}", ""))
    /\ pc' = "end"
    /\ UNCHANGED <<register_data, sent, response, data, user_id, token, exc, exitCode>>

\* except Exception as e: print the message and fall off the end of the file.
HandleException ==
    /\ pc = "L39"
    /\ out' = Append(out, ErrorLine(exc))
    /\ pc' = "end"
    /\ UNCHANGED <<register_data, sent, response, data, user_id, token, exc, exitCode>>

\* End of the module: the interpreter exits with status 0.
Exit ==
    /\ pc = "end"
    /\ pc' = "exited"
    /\ exitCode' = 0
    /\ UNCHANGED <<register_data, sent, response, data, user_id, token, exc, out>>

\* The steps the interpreter takes by itself.
ScriptStep ==
    \/ PrintBanner
    \/ BuildRegisterData
    \/ SendPost
    \/ CheckStatus
    \/ ParseJson
    \/ GetUserId
    \/ GetToken
    \/ ReportSuccess
    \/ PrintFailed
    \/ PrintFailedBody
    \/ HandleException
    \/ Exit

\* The steps that wait on the service.
ServiceStep ==
    \/ ReceiveResponse
    \/ TransportFault

Next == ScriptStep \/ ServiceStep

Spec == Init /\ [][Next]_vars

\* The interpreter keeps running; the service owes no answer.
LiveSpec == Spec /\ WF_vars(ScriptStep)

(***************************************************************************)
(* Properties.                                                             *)
(***************************************************************************)
RegisterUrl == "http://localhost:1341/api/auth/local/register"

RegisterPayload ==
    [username |-> "testsysadmin", email |-> "testsysadmin@test.com",
     password |-> "TestAdmin123!"]

\* The positions of the lines of out printed with format string fmt.
LinesWith(fmt) == {i \in 1..Len(out) : out[i].fmt = fmt}

IdFmt == "User created with ID: {user_id}"
TokenFmt == "JWT Token: {token}"
UpdateFmt == "UPDATE up_users SET userRole='sysadmin' WHERE id={user_id};"
NoteFmt == "Note: User role is 'reguser' by default"
HowToFmt == "To make this user a sysadmin, update the database:"
FailedFmt == "Registration failed: {response.status_code}"
FailedBodyFmt == "{response.json()}"
ErrorFmt == "Error: {e}"

Answered == response # None

\* The body has the shape {user: {id}, jwt}.
ValidBody ==
    /\ SubscriptOk(response.parsed, "user")
    /\ SubscriptOk(response.parsed.o.user, "id")
    /\ SubscriptOk(response.parsed, "jwt")

Success200 == Answered /\ response.status_code = 200 /\ ValidBody

Malformed200 == Answered /\ response.status_code = 200 /\ ~ValidBody

Non200 == Answered /\ response.status_code # 200

HasSuccessReport ==
    LinesWith(IdFmt) \cup LinesWith(TokenFmt) \cup LinesWith(NoteFmt)
      \cup LinesWith(HowToFmt) \cup LinesWith(UpdateFmt) # {}

HasFailureReport == LinesWith(FailedFmt) \cup LinesWith(FailedBodyFmt) # {}

HasErrorReport == LinesWith(ErrorFmt) # {}

Truth(b) == IF b THEN 1 ELSE 0

\* C1: in every run the script issues exactly one HTTP POST to the
\* registration endpoint: none before line 20 runs, one from then on whatever
\* the outcome, never a second request and never another method or URL.
C1_ExactlyOnePost ==
    /\ pc \in {"L12", "L13", "L20"} => sent = <<>>
    /\ pc \notin {"L12", "L13", "L20"} => Len(sent) = 1
    /\ \A i \in 1..Len(sent) : sent[i].method = "POST" /\ sent[i].url = RegisterUrl

C1_Witness ==
    /\ pc = "exited"
    /\ Len(sent) = 1
    /\ ~Answered
    /\ exc.cls = "ConnectionError"

\* C2: after HTTP 200 with a body {user: {id}, jwt} the finished run has
\* printed the identifier of the response exactly once, its token exactly
\* once, and an update statement holding that same identifier.
C2_SuccessReport ==
    (pc = "exited" /\ Success200) =>
        /\ Cardinality(LinesWith(IdFmt)) = 1
        /\ \A i \in LinesWith(IdFmt) : out[i].arg = PyStr(response.parsed.o.user.o.id)
        /\ Cardinality(LinesWith(TokenFmt)) = 1
        /\ \A i \in LinesWith(TokenFmt) : out[i].arg = PyStr(response.parsed.o.jwt)
        /\ LinesWith(UpdateFmt) # {}
        /\ \A i \in LinesWith(UpdateFmt) : out[i].arg = PyStr(response.parsed.o.user.o.id)

C2_Witness ==
    /\ pc = "exited"
    /\ Success200
    /\ response.parsed.o.user.o.id = JNum(2)
    /\ response.parsed.o.jwt = JStr("eyJ.b")
    /\ Len(out) = 6

\* C3: after any response whose status is not 200, whatever its body, the
\* finished run has printed the status code and the response body (its text,
\* or the parsed value's text), and no token.
C3_Non200PrintsStatusAndBody ==
    (pc = "exited" /\ Non200) =>
        /\ \E i \in LinesWith(FailedFmt) : out[i].arg = ToString(response.status_code)
        /\ \E i \in LinesWith(FailedBodyFmt) :
              \/ out[i].arg = response.text
              \/ response.parsed # NotJson /\ out[i].arg = PyStr(response.parsed)
        /\ LinesWith(TokenFmt) = {}

\* C4: when requests.post raises a transport fault the handler takes it: the
\* run ends with status 0 having printed, after the banner, one error line
\* with the fault's message and nothing else.
C4_TransportFaultCaught ==
    (pc = "exited" /\ ~Answered) =>
        /\ exitCode = 0
        /\ \E f \in TransportFaults : exc = f /\ out = <<BannerLine, Line(ErrorFmt, f.msg)>>

C4_Witness ==
    /\ pc = "exited"
    /\ ~Answered
    /\ exc.cls = "Timeout"
    /\ Len(out) = 2

\* C5: on every path (success, non-200 status, transport fault, unusable
\* body) the run terminates, and every run that ends does so with exit code 0.
C5_TerminatesWithZero ==
    /\ [](pc = "exited" => exitCode = 0)
    /\ (Answered \/ exc # None) ~> (pc = "exited")

C5_Witness ==
    /\ pc = "exited"
    /\ exitCode = 0
    /\ Malformed200
    /\ exc.cls = "KeyError"

\* C6: every request sent is a POST to
\* http://localhost:1341/api/auth/local/register whose JSON body is exactly
\* the three literal fields, and register_data holds them from line 13 on.
C6_FixedRequest ==
    /\ \A i \in 1..Len(sent) :
          sent[i] = [method |-> "POST", url |-> RegisterUrl, json |-> RegisterPayload]
    /\ pc \notin {"L12", "L13"} =>
          /\ register_data = RegisterPayload
          /\ DOMAIN register_data = {"username", "email", "password"}

C6_Witness ==
    /\ pc = "L20_call"
    /\ Len(sent) = 1

\* C7: after HTTP 200 with a body that is not JSON or lacks user, user.id or
\* jwt, no line of the success report is ever printed, and the finished run
\* has caught the fault (status 0) and printed its message in one error line.
C7_MalformedBodyNoPartialReport ==
    Malformed200 =>
        /\ ~HasSuccessReport
        /\ pc = "exited" =>
              /\ exitCode = 0
              /\ exc # None
              /\ out = <<BannerLine, Line(ErrorFmt, exc.msg)>>
              /\ exc.msg # ""

C7_Witness ==
    /\ pc = "exited"
    /\ Malformed200
    /\ SubscriptOk(response.parsed, "user")
    /\ SubscriptOk(response.parsed.o.user, "id")
    /\ ~SubscriptOk(response.parsed, "jwt")
    /\ HasErrorReport

\* C8: every finished run has printed exactly one of the three outcome
\* reports: the success report, the non-200 failure report, or the error line.
C8_ExactlyOneOutcome ==
    pc = "exited" =>
        Truth(HasSuccessReport) + Truth(HasFailureReport) + Truth(HasErrorReport) = 1

\* C9: the banner is the first line and is printed before the POST is sent,
\* no outcome line is printed before a response or fault is observed, and a
\* success prints identifier, token, role note, instruction and update
\* statement in that order.
C9_OutputOrder ==
    /\ sent # <<>> => Len(out) >= 1
    /\ Len(out) >= 1 => out[1] = BannerLine
    /\ LinesWith(BannerLine.fmt) \subseteq {1}
    /\ (~Answered /\ exc = None) => Len(out) <= 1
    /\ (pc = "exited" /\ Success200) =>
          [i \in 1..Len(out) |-> out[i].fmt]
            = <<BannerLine.fmt, IdFmt, TokenFmt, NoteFmt, HowToFmt, UpdateFmt>>

C9_Witness ==
    /\ pc = "exited"
    /\ Success200
    /\ Len(out) = 6
    /\ out[2].fmt = IdFmt

====
